---- MODULE Spec2Model ----
(***************************************************************************)
(* dgvis: the in-memory dependency graph (src/dgvis/graph.py) and its      *)
(* analyses (src/dgvis/analyzer.py).                                       *)
(*                                                                         *)
(* Node names are opaque strings in the program; no code path compares or  *)
(* orders them.  They are modelled as the integers 1..MaxNodes, and the    *)
(* k-th name ever inserted is the integer k.                               *)
(*                                                                         *)
(* A Python set has an iteration order that the language leaves            *)
(* unspecified.  Every analysis therefore takes, next to the graph, the    *)
(* order in which each outgoing-edge set is iterated (ord: one permutation *)
(* per node), and the action that runs the analysis draws ord from all     *)
(* permutations.                                                           *)
(***************************************************************************)
EXTENDS Integers, Sequences, FiniteSets, TLC

\* ---- bounds ------------------------------------------------------------
MaxNodes == 3
MaxEdges == 5

\* ---- values ------------------------------------------------------------
None == 0
Names == 1..MaxNodes
NoMeta == [k \in {} |-> None]

VARIABLES nodes, adj, call, ret
vars == <<nodes, adj, call, ret>>

Range(s) == {s[i] : i \in 1..Len(s)}
Min(a, b) == IF a <= b THEN a ELSE b
Reverse(s) == [i \in 1..Len(s) |-> s[Len(s) + 1 - i]]
InsertAt(s, i, x) == SubSeq(s, 1, i - 1) \o <<x>> \o SubSeq(s, i, Len(s))

\* ---- graph.py: Node, Graph ----------------------------------------------
Node(name, version, meta) == [name |-> name, version |-> version, metadata |-> meta]

\* The Graph object as a value: _nodes (insertion-ordered dict) and _adj.
graph == [nodes |-> nodes, adj |-> adj]

node_names(g) == [i \in 1..Len(g.nodes) |-> g.nodes[i].name]
has_node(g, name) == \E i \in 1..Len(g.nodes) : g.nodes[i].name = name
node_count(g) == Len(g.nodes)
neighbors(g, name) == g.adj[name]
has_edge(g, src, dst) == src \in DOMAIN g.adj /\ dst \in g.adj[src]

RECURSIVE SumCard(_, _)
SumCard(f, S) ==
    IF S = {} THEN 0
    ELSE LET x == CHOOSE y \in S : TRUE IN Cardinality(f[x]) + SumCard(f, S \ {x})
edge_count(g) == SumCard(g.adj, DOMAIN g.adj)

\* add_node that replaces the metadata of an existing node by the new fields.
with_node_replace(g, name, version, meta) ==
    IF ~ has_node(g, name)
    THEN [nodes |-> Append(g.nodes, Node(name, version, meta)),
          adj   |-> [x \in DOMAIN g.adj \cup {name} |->
                        IF x = name THEN {} ELSE g.adj[x]]]
    ELSE [nodes |-> [i \in 1..Len(g.nodes) |->
                        IF g.nodes[i].name = name
                        THEN [g.nodes[i] EXCEPT
                                !.version  = IF version # None THEN version ELSE @,
                                !.metadata = meta]
                        ELSE g.nodes[i]],
          adj   |-> g.adj]

\* Graph.add_node as a function of the graph value.
with_node(g, name, version, meta) ==
    IF ~ has_node(g, name)
    THEN [nodes |-> Append(g.nodes, Node(name, version, meta)),
          adj   |-> [x \in DOMAIN g.adj \cup {name} |->
                        IF x = name THEN {} ELSE g.adj[x]]]
    ELSE [nodes |-> [i \in 1..Len(g.nodes) |->
                        IF g.nodes[i].name = name
                        THEN [g.nodes[i] EXCEPT
                                !.version  = IF version # None THEN version ELSE @,
                                !.metadata = meta @@ @]
                        ELSE g.nodes[i]],
          adj   |-> g.adj]

get_node(g, name) == LET i == CHOOSE j \in 1..Len(g.nodes) : g.nodes[j].name = name
                     IN g.nodes[i]

\* add_edge that creates the source only.
with_edge_no_dst(g, src, dst) ==
    LET h == with_node(g, src, None, NoMeta)
    IN [nodes |-> h.nodes, adj |-> [h.adj EXCEPT ![src] = @ \cup {dst}]]

\* add_edge that records the edge in both directions.
with_edge_symmetric(g, src, dst) ==
    LET h == with_node(with_node(g, src, None, NoMeta), dst, None, NoMeta)
    IN [nodes |-> h.nodes,
        adj   |-> [h.adj EXCEPT ![src] = @ \cup {dst}, ![dst] = @ \cup {src}]]

\* Graph.add_edge as a function of the graph value.
with_edge(g, src, dst) ==
    LET h == with_node(with_node(g, src, None, NoMeta), dst, None, NoMeta)
    IN [nodes |-> h.nodes, adj |-> [h.adj EXCEPT ![src] = @ \cup {dst}]]

\* ---- graph.py: build_graph --------------------------------------------------
\* deps, a dict in insertion order, is the sequence of its items
\* [parent, children]; the parents are distinct.

\* `for child in children: g.add_edge(parent, child)`, from the j-th child on.
RECURSIVE bg_children(_, _, _, _)
bg_children(g, parent, children, j) ==
    IF j > Len(children) THEN g
    ELSE bg_children(with_edge(g, parent, children[j]), parent, children, j + 1)

\* The loop over deps.items() without `g.add_node(parent)`.
RECURSIVE bg_for_no_parent(_, _, _)
bg_for_no_parent(g, deps, i) ==
    IF i > Len(deps) THEN g
    ELSE bg_for_no_parent(bg_children(g, deps[i].parent, deps[i].children, 1),
                          deps, i + 1)

\* `for parent, children in deps.items()`, from the i-th item on.
RECURSIVE bg_for(_, _, _)
bg_for(g, deps, i) ==
    IF i > Len(deps) THEN g
    ELSE bg_for(bg_children(with_node(g, deps[i].parent, None, NoMeta),
                            deps[i].parent, deps[i].children, 1),
                deps, i + 1)

build_graph(deps) == bg_for([nodes |-> <<>>, adj |-> <<>>], deps, 1)

\* What a call returns or raises.
Return(v) == [exc |-> "none", val |-> v]
Raise(e) == [exc |-> e, val |-> None]

\* Iteration orders of a set, and of every outgoing-edge set of a graph.
RECURSIVE Perms(_)
Perms(S) ==
    IF S = {} THEN {<<>>}
    ELSE UNION {{<<x>> \o p : p \in Perms(S \ {x})} : x \in S}

RECURSIVE OrdersOver(_, _)
OrdersOver(g, S) ==
    IF S = {} THEN {[x \in {} |-> <<>>]}
    ELSE LET n == CHOOSE y \in S : TRUE
         IN {(n :> p) @@ o : p \in Perms(g.adj[n]), o \in OrdersOver(g, S \ {n})}
IterOrders(g) == OrdersOver(g, DOMAIN g.adj)

\* ---- analyzer.py: detect_cycles -------------------------------------------
WHITE == 0
GRAY == 1
BLACK == 2

\* The parent walk of the cycle reconstruction (the inner while loop).
RECURSIVE dc_walk(_, _, _, _)
dc_walk(parent, cur, v, cycle) ==
    IF cur = v THEN cycle
    ELSE LET nxt == parent[cur]
         IN IF nxt = None THEN cycle
            ELSE dc_walk(parent, nxt, v, Append(cycle, nxt))

\* dc_cycle that starts the list at u alone, without the closing v.
dc_cycle_open(parent, u, v) == Reverse(dc_walk(parent, u, v, <<u>>))

\* dc_cycle without cycle.reverse().
dc_cycle_no_reverse(parent, u, v) == dc_walk(parent, u, v, <<v, u>>)

dc_cycle(parent, u, v) == Reverse(dc_walk(parent, u, v, <<v, u>>))

\* Local state of one call; a stack frame is (node, rest of its iterator).
dc_init(g) ==
    [color  |-> [n \in Range(node_names(g)) |-> WHITE],
     parent |-> [n \in Range(node_names(g)) |-> None],
     cycles |-> <<>>,
     stack  |-> <<>>]

dc_push(st, ord, v) ==
    [st EXCEPT !.color[v] = GRAY,
               !.stack = Append(@, [node |-> v, it |-> ord[v]])]

\* dc_step with cycle detection by a visited set: every non-WHITE neighbour
\* counts as a back-edge.
dc_step_visited(st, ord) ==
    LET top == Len(st.stack)
        u   == st.stack[top].node
        it  == st.stack[top].it
    IN IF it = <<>>
       THEN [st EXCEPT !.color[u] = BLACK, !.stack = SubSeq(@, 1, top - 1)]
       ELSE LET v  == Head(it)
                s1 == [st EXCEPT !.stack[top].it = Tail(it)]
            IN IF s1.color[v] # WHITE
               THEN [s1 EXCEPT !.cycles = Append(@, dc_cycle(s1.parent, u, v))]
               ELSE dc_push([s1 EXCEPT !.parent[v] = u], ord, v)

\* dc_step that takes a back-edge only to another node.
dc_step_no_self(st, ord) ==
    LET top == Len(st.stack)
        u   == st.stack[top].node
        it  == st.stack[top].it
    IN IF it = <<>>
       THEN [st EXCEPT !.color[u] = BLACK, !.stack = SubSeq(@, 1, top - 1)]
       ELSE LET v  == Head(it)
                s1 == [st EXCEPT !.stack[top].it = Tail(it)]
            IN IF s1.color[v] = GRAY /\ v # u
               THEN [s1 EXCEPT !.cycles = Append(@, dc_cycle(s1.parent, u, v))]
               ELSE IF s1.color[v] = WHITE
               THEN dc_push([s1 EXCEPT !.parent[v] = u], ord, v)
               ELSE s1

\* dc_step that drops a cycle sharing a node with one already reported.
dc_step_dedup(st, ord) ==
    LET top == Len(st.stack)
        u   == st.stack[top].node
        it  == st.stack[top].it
    IN IF it = <<>>
       THEN [st EXCEPT !.color[u] = BLACK, !.stack = SubSeq(@, 1, top - 1)]
       ELSE LET v  == Head(it)
                s1 == [st EXCEPT !.stack[top].it = Tail(it)]
            IN IF s1.color[v] = GRAY
               THEN LET cycle == dc_cycle(s1.parent, u, v)
                    IN IF \E i \in 1..Len(s1.cycles) :
                             Range(s1.cycles[i]) \cap Range(cycle) # {}
                       THEN s1
                       ELSE [s1 EXCEPT !.cycles = Append(@, cycle)]
               ELSE IF s1.color[v] = WHITE
               THEN dc_push([s1 EXCEPT !.parent[v] = u], ord, v)
               ELSE s1

\* dc_step that pushes an unvisited neighbour without recording its parent.
dc_step_no_parent(st, ord) ==
    LET top == Len(st.stack)
        u   == st.stack[top].node
        it  == st.stack[top].it
    IN IF it = <<>>
       THEN [st EXCEPT !.color[u] = BLACK, !.stack = SubSeq(@, 1, top - 1)]
       ELSE LET v  == Head(it)
                s1 == [st EXCEPT !.stack[top].it = Tail(it)]
            IN IF s1.color[v] = GRAY
               THEN [s1 EXCEPT !.cycles = Append(@, dc_cycle(s1.parent, u, v))]
               ELSE IF s1.color[v] = WHITE
               THEN dc_push(s1, ord, v)
               ELSE s1

\* One iteration of `while stack`.
dc_step(st, ord) ==
    LET top == Len(st.stack)
        u   == st.stack[top].node
        it  == st.stack[top].it
    IN IF it = <<>>
       THEN [st EXCEPT !.color[u] = BLACK, !.stack = SubSeq(@, 1, top - 1)]
       ELSE LET v  == Head(it)
                s1 == [st EXCEPT !.stack[top].it = Tail(it)]
            IN IF s1.color[v] = GRAY
               THEN [s1 EXCEPT !.cycles = Append(@, dc_cycle(s1.parent, u, v))]
               ELSE IF s1.color[v] = WHITE
               THEN dc_push([s1 EXCEPT !.parent[v] = u], ord, v)
               ELSE s1

RECURSIVE dc_while(_, _)
dc_while(st, ord) == IF st.stack = <<>> THEN st ELSE dc_while(dc_step(st, ord), ord)

\* The loop `for start in graph.node_names()` from its i-th element on.
RECURSIVE dc_for(_, _, _, _)
dc_for(g, ord, st, i) ==
    IF i > Len(node_names(g)) THEN st
    ELSE LET start == node_names(g)[i]
         IN IF st.color[start] # WHITE
            THEN dc_for(g, ord, st, i + 1)
            ELSE dc_for(g, ord, dc_while(dc_push(st, ord, start), ord), i + 1)

detect_cycles(g, ord) == dc_for(g, ord, dc_init(g), 1).cycles

\* ---- analyzer.py: topological_sort ----------------------------------------
\* The counting loop incrementing in_degree[node] instead of in_degree[dep].
ts_in_degree_of_source(g) ==
    [n \in Range(node_names(g)) |-> Cardinality(neighbors(g, n))]

\* The counting loop: one increment per (node, dep) with dep in neighbors(node).
ts_in_degree(g) ==
    [n \in Range(node_names(g)) |->
        Cardinality({u \in Range(node_names(g)) : n \in neighbors(g, u)})]

\* `for dep in graph.neighbors(node)` of the main loop, over the rest of deps.
RECURSIVE ts_for(_, _)
ts_for(st, deps) ==
    IF deps = <<>> THEN st
    ELSE LET dep == Head(deps)
             d   == st.in_degree[dep] - 1
         IN ts_for([st EXCEPT !.in_degree[dep] = d,
                              !.queue = IF d = 0 THEN Append(@, dep) ELSE @],
                   Tail(deps))

RECURSIVE ts_while(_, _)
ts_while(st, ord) ==
    IF st.queue = <<>> THEN st
    ELSE LET node == Head(st.queue)
         IN ts_while(ts_for([st EXCEPT !.queue = Tail(@),
                                       !.order = Append(@, node)],
                            ord[node]),
                     ord)

\* One iteration of `while queue` of topological_sort.
ts_step(st, ord) ==
    LET node == Head(st.queue)
    IN ts_for([st EXCEPT !.queue = Tail(@), !.order = Append(@, node)], ord[node])

\* topological_sort that hands back whatever order it produced.
topological_sort_partial(g, ord) ==
    LET deg == ts_in_degree(g)
        st  == ts_while([in_degree |-> deg,
                         queue     |-> SelectSeq(node_names(g), LAMBDA n : deg[n] = 0),
                         order     |-> <<>>],
                        ord)
    IN Return(st.order)

topological_sort(g, ord) ==
    LET deg == ts_in_degree(g)
        st  == ts_while([in_degree |-> deg,
                         queue     |-> SelectSeq(node_names(g), LAMBDA n : deg[n] = 0),
                         order     |-> <<>>],
                        ord)
    IN IF Len(st.order) # node_count(g) THEN Raise("ValueError") ELSE Return(st.order)

\* ---- analyzer.py: transitive_deps -----------------------------------------
\* first: the order of list(graph.neighbors(node)); tmp: for every node cur the
\* order of its neighbours from which the order of the temporary set
\* `graph.neighbors(cur) - visited` is taken.
RECURSIVE td_while(_, _, _, _)
td_while(g, tmp, visited, stack) ==
    IF stack = <<>> THEN visited
    ELSE LET cur  == stack[Len(stack)]
             rest == SubSeq(stack, 1, Len(stack) - 1)
         IN IF cur \in visited
            THEN td_while(g, tmp, visited, rest)
            ELSE LET vis == visited \cup {cur}
                 IN td_while(g, tmp, vis,
                             rest \o SelectSeq(tmp[cur], LAMBDA x : x \notin vis))

\* One iteration of `while stack` of transitive_deps; st is (visited, stack).
td_step(tmp, st) ==
    LET cur  == st.stack[Len(st.stack)]
        rest == SubSeq(st.stack, 1, Len(st.stack) - 1)
    IN IF cur \in st.visited
       THEN [visited |-> st.visited, stack |-> rest]
       ELSE LET vis == st.visited \cup {cur}
            IN [visited |-> vis,
                stack   |-> rest \o SelectSeq(tmp[cur], LAMBDA x : x \notin vis)]

\* transitive_deps whose loop extends the stack with the neighbours of node
\* instead of those of cur: it visits the direct dependencies only.
transitive_deps_direct(g, node, first, tmp) ==
    IF ~ has_node(g, node) THEN Raise("KeyError")
    ELSE Return(Range(first))

transitive_deps(g, node, first, tmp) ==
    IF ~ has_node(g, node) THEN Raise("KeyError")
    ELSE Return(td_while(g, tmp, {}, first))

\* ---- graph.py: neighbors on any name, roots --------------------------------
\* neighbors that hands back an empty set for a name it does not know.
neighbors_checked_default(g, name) ==
    IF name \notin DOMAIN g.adj THEN Return({}) ELSE Return(neighbors(g, name))

\* Graph.neighbors with its KeyError.
neighbors_checked(g, name) ==
    IF name \notin DOMAIN g.adj THEN Raise("KeyError") ELSE Return(neighbors(g, name))

\* roots that lists the nodes without incoming edge latest-inserted first.
roots_latest_first(g) ==
    LET has_incoming == UNION {g.adj[n] : n \in DOMAIN g.adj}
    IN Reverse(SelectSeq(node_names(g), LAMBDA n : n \notin has_incoming))

roots(g) ==
    LET has_incoming == UNION {g.adj[n] : n \in DOMAIN g.adj}
    IN SelectSeq(node_names(g), LAMBDA n : n \notin has_incoming)

\* ---- analyzer.py: compute_depth --------------------------------------------
\* cd_for that gives a newly met dependency the depth of node itself.
RECURSIVE cd_for_same_level(_, _, _)
cd_for_same_level(st, node, deps) ==
    IF deps = <<>> THEN st
    ELSE LET dep == Head(deps)
         IN IF dep \notin DOMAIN st.depth
            THEN cd_for_same_level([depth |-> (dep :> st.depth[node]) @@ st.depth,
                                    queue |-> Append(st.queue, dep)],
                                   node, Tail(deps))
            ELSE cd_for_same_level(st, node, Tail(deps))

\* `for dep in graph.neighbors(node)`, over the rest of deps.
RECURSIVE cd_for(_, _, _)
cd_for(st, node, deps) ==
    IF deps = <<>> THEN st
    ELSE LET dep == Head(deps)
         IN IF dep \notin DOMAIN st.depth
            THEN cd_for([depth |-> (dep :> (st.depth[node] + 1)) @@ st.depth,
                         queue |-> Append(st.queue, dep)],
                        node, Tail(deps))
            ELSE cd_for(st, node, Tail(deps))

RECURSIVE cd_while(_, _)
cd_while(st, ord) ==
    IF st.queue = <<>> THEN st
    ELSE LET node == Head(st.queue)
         IN cd_while(cd_for([st EXCEPT !.queue = Tail(@)], node, ord[node]), ord)

\* cd_step that reads queue[0] and leaves it in the queue.
cd_step_peek(st, ord) ==
    LET node == Head(st.queue)
    IN cd_for(st, node, ord[node])

\* One iteration of `while queue` of compute_depth.
cd_step(st, ord) ==
    LET node == Head(st.queue)
    IN cd_for([st EXCEPT !.queue = Tail(@)], node, ord[node])

\* The empty dict.
EmptyDict == [n \in {} |-> 0]

\* compute_depth that raises when it is given no root and finds none.
compute_depth_no_default(g, root, ord) ==
    IF root = None /\ roots(g) = <<>> THEN Raise("ValueError")
    ELSE LET r == IF root = None THEN roots(g)[1] ELSE root
         IN IF ~ has_node(g, r) THEN Raise("KeyError")
            ELSE Return(cd_while([depth |-> (r :> 0), queue |-> <<r>>], ord).depth)

\* root = None stands for the call without a root.
compute_depth(g, root, ord) ==
    IF root = None /\ roots(g) = <<>> THEN Return(EmptyDict)
    ELSE LET r == IF root = None THEN roots(g)[1] ELSE root
         IN IF ~ has_node(g, r) THEN Raise("KeyError")
            ELSE Return(cd_while([depth |-> (r :> 0), queue |-> <<r>>], ord).depth)

\* ---- analyzer.py: strongly_connected_components ---------------------------
\* Local state of one call.  node_index, node_lowlink and on_stack are dicts
\* that grow; a call_stack frame is (node, rest of its iterator).
scc_init ==
    [index_counter |-> 0,
     node_index    |-> [n \in {} |-> 0],
     node_lowlink  |-> [n \in {} |-> 0],
     on_stack      |-> [n \in {} |-> FALSE],
     scc_stack     |-> <<>>,
     sccs          |-> <<>>,
     call_stack    |-> <<>>]

\* First visit of v: index, lowlink, both stacks.
scc_visit(st, ord, v) ==
    [st EXCEPT !.node_index    = (v :> st.index_counter) @@ @,
               !.node_lowlink  = (v :> st.index_counter) @@ @,
               !.index_counter = @ + 1,
               !.on_stack      = (v :> TRUE) @@ @,
               !.scc_stack     = Append(@, v),
               !.call_stack    = Append(@, [node |-> v, it |-> ord[v]])]

scc_on_stack_get(st, v) == IF v \in DOMAIN st.on_stack THEN st.on_stack[v] ELSE FALSE

\* scc_for that tightens the lowlink on every visited neighbour, on the
\* component stack or not.
RECURSIVE scc_for_any_visited(_, _, _)
scc_for_any_visited(st, ord, u) ==
    LET top == Len(st.call_stack)
        it  == st.call_stack[top].it
    IN IF it = <<>> THEN [st |-> st, advanced |-> FALSE]
       ELSE LET v  == Head(it)
                s1 == [st EXCEPT !.call_stack[top].it = Tail(it)]
            IN IF v \notin DOMAIN s1.node_index
               THEN [st |-> scc_visit(s1, ord, v), advanced |-> TRUE]
               ELSE scc_for_any_visited([s1 EXCEPT !.node_lowlink[u] =
                                            Min(@, s1.node_index[v])], ord, u)

\* `for v in neighbors_iter` of the frame on top, until the break or the end.
RECURSIVE scc_for(_, _, _)
scc_for(st, ord, u) ==
    LET top == Len(st.call_stack)
        it  == st.call_stack[top].it
    IN IF it = <<>> THEN [st |-> st, advanced |-> FALSE]
       ELSE LET v  == Head(it)
                s1 == [st EXCEPT !.call_stack[top].it = Tail(it)]
            IN IF v \notin DOMAIN s1.node_index
               THEN [st |-> scc_visit(s1, ord, v), advanced |-> TRUE]
               ELSE IF scc_on_stack_get(s1, v)
               THEN scc_for([s1 EXCEPT !.node_lowlink[u] =
                                          Min(@, s1.node_index[v])], ord, u)
               ELSE scc_for(s1, ord, u)

\* scc_pop that leaves on_stack[w] set.
RECURSIVE scc_pop_keep_flag(_, _, _)
scc_pop_keep_flag(st, u, component) ==
    LET w  == st.scc_stack[Len(st.scc_stack)]
        s1 == [st EXCEPT !.scc_stack = SubSeq(@, 1, Len(@) - 1)]
        c1 == Append(component, w)
    IN IF w = u THEN [s1 EXCEPT !.sccs = Append(@, c1)]
       ELSE scc_pop_keep_flag(s1, u, c1)

\* The `while True` loop that pops one component off scc_stack.
RECURSIVE scc_pop(_, _, _)
scc_pop(st, u, component) ==
    LET w  == st.scc_stack[Len(st.scc_stack)]
        s1 == [st EXCEPT !.scc_stack = SubSeq(@, 1, Len(@) - 1),
                         !.on_stack[w] = FALSE]
        c1 == Append(component, w)
    IN IF w = u THEN [s1 EXCEPT !.sccs = Append(@, c1)] ELSE scc_pop(s1, u, c1)

\* scc_step that does not hand the lowlink of u up to its parent frame.
scc_step_no_propagate(st, ord) ==
    LET u == st.call_stack[Len(st.call_stack)].node
        r == scc_for(st, ord, u)
    IN IF r.advanced THEN r.st
       ELSE LET s1 == IF r.st.node_lowlink[u] = r.st.node_index[u]
                      THEN scc_pop(r.st, u, <<>>) ELSE r.st
            IN [s1 EXCEPT !.call_stack = SubSeq(@, 1, Len(@) - 1)]

\* One iteration of `while call_stack`.
scc_step(st, ord) ==
    LET u == st.call_stack[Len(st.call_stack)].node
        r == scc_for(st, ord, u)
    IN IF r.advanced THEN r.st
       ELSE LET s1 == IF r.st.node_lowlink[u] = r.st.node_index[u]
                      THEN scc_pop(r.st, u, <<>>) ELSE r.st
                s2 == [s1 EXCEPT !.call_stack = SubSeq(@, 1, Len(@) - 1)]
            IN IF s2.call_stack # <<>>
               THEN LET parent == s2.call_stack[Len(s2.call_stack)].node
                    IN [s2 EXCEPT !.node_lowlink[parent] = Min(@, s2.node_lowlink[u])]
               ELSE s2

RECURSIVE scc_while(_, _)
scc_while(st, ord) ==
    IF st.call_stack = <<>> THEN st ELSE scc_while(scc_step(st, ord), ord)

\* scc_outer that starts a traversal at every node, visited or not.
RECURSIVE scc_outer_revisit(_, _, _, _)
scc_outer_revisit(g, ord, st, i) ==
    IF i > Len(node_names(g)) THEN st
    ELSE scc_outer_revisit(g, ord, scc_while(scc_visit(st, ord, node_names(g)[i]), ord),
                           i + 1)

\* The loop `for start in graph.node_names()` from its i-th element on.
RECURSIVE scc_outer(_, _, _, _)
scc_outer(g, ord, st, i) ==
    IF i > Len(node_names(g)) THEN st
    ELSE LET start == node_names(g)[i]
         IN IF start \in DOMAIN st.node_index
            THEN scc_outer(g, ord, st, i + 1)
            ELSE scc_outer(g, ord, scc_while(scc_visit(st, ord, start), ord), i + 1)

\* sorted(..., key=len) without reverse=True: stable, shortest first.
RECURSIVE sorted_by_len_asc(_)
sorted_by_len_asc(s) ==
    IF s = <<>> THEN <<>>
    ELSE LET init == sorted_by_len_asc(SubSeq(s, 1, Len(s) - 1))
             x    == s[Len(s)]
             k    == Cardinality({i \in 1..Len(init) : Len(init[i]) <= Len(x)})
         IN InsertAt(init, k + 1, x)

\* sorted(..., key=len, reverse=True): stable, longest first.
RECURSIVE sorted_by_len_desc(_)
sorted_by_len_desc(s) ==
    IF s = <<>> THEN <<>>
    ELSE LET init == sorted_by_len_desc(SubSeq(s, 1, Len(s) - 1))
             x    == s[Len(s)]
             k    == Cardinality({i \in 1..Len(init) : Len(init[i]) >= Len(x)})
         IN InsertAt(init, k + 1, x)

\* scc_order that lists the single-node components first.
scc_order_trivial_first(sccs) ==
    LET non_trivial == sorted_by_len_desc(SelectSeq(sccs, LAMBDA s : Len(s) > 1))
        trivial     == SelectSeq(sccs, LAMBDA s : Len(s) = 1)
    IN trivial \o non_trivial

scc_order(sccs) ==
    LET non_trivial == sorted_by_len_desc(SelectSeq(sccs, LAMBDA s : Len(s) > 1))
        trivial     == SelectSeq(sccs, LAMBDA s : Len(s) = 1)
    IN non_trivial \o trivial

strongly_connected_components(g, ord) ==
    scc_order(scc_outer(g, ord, scc_init, 1).sccs)

\* ---- analyzer.py: graph_stats ----------------------------------------------
MaxOf(S) == CHOOSE x \in S : \A y \in S : y <= x

\* round(a / n, 2) in hundredths, n > 0: the nearest hundredth, the even one on
\* a tie.
round2(a, n) ==
    LET q == (100 * a) \div n
        r == (100 * a) % n
    IN IF 2 * r > n \/ (2 * r = n /\ q % 2 = 1) THEN q + 1 ELSE q

\* graph_stats that measures the depth from the last root.
graph_stats_last_root(g, ord) ==
    LET rts         == roots(g)
        depths      == IF rts # <<>> THEN compute_depth(g, rts[Len(rts)], ord).val ELSE EmptyDict
        cycles      == detect_cycles(g, ord)
        leaves      == SelectSeq(node_names(g), LAMBDA n : Cardinality(neighbors(g, n)) = 0)
        total_edges == edge_count(g)
        n           == node_count(g)
    IN [node_count      |-> n,
        edge_count      |-> total_edges,
        root_nodes      |-> rts,
        leaf_nodes      |-> leaves,
        leaf_count      |-> Len(leaves),
        max_depth       |-> IF DOMAIN depths # {}
                            THEN MaxOf({depths[x] : x \in DOMAIN depths}) ELSE 0,
        has_cycles      |-> Len(cycles) > 0,
        cycle_count     |-> Len(cycles),
        cycles          |-> cycles,
        avg_direct_deps |-> IF n # 0 THEN round2(total_edges, n) ELSE 0]

\* graph_stats whose has_cycles asks for more than one cycle.
graph_stats_several(g, ord) ==
    LET rts         == roots(g)
        depths      == IF rts # <<>> THEN compute_depth(g, rts[1], ord).val ELSE EmptyDict
        cycles      == detect_cycles(g, ord)
        leaves      == SelectSeq(node_names(g), LAMBDA n : Cardinality(neighbors(g, n)) = 0)
        total_edges == edge_count(g)
        n           == node_count(g)
    IN [node_count      |-> n,
        edge_count      |-> total_edges,
        root_nodes      |-> rts,
        leaf_nodes      |-> leaves,
        leaf_count      |-> Len(leaves),
        max_depth       |-> IF DOMAIN depths # {}
                            THEN MaxOf({depths[x] : x \in DOMAIN depths}) ELSE 0,
        has_cycles      |-> Len(cycles) > 1,
        cycle_count     |-> Len(cycles),
        cycles          |-> cycles,
        avg_direct_deps |-> IF n # 0 THEN round2(total_edges, n) ELSE 0]

\* avg_direct_deps is held in hundredths.  Both traversals iterate the same
\* unmodified sets, hence the one ord.
graph_stats(g, ord) ==
    LET rts         == roots(g)
        depths      == IF rts # <<>> THEN compute_depth(g, rts[1], ord).val ELSE EmptyDict
        cycles      == detect_cycles(g, ord)
        leaves      == SelectSeq(node_names(g), LAMBDA n : Cardinality(neighbors(g, n)) = 0)
        total_edges == edge_count(g)
        n           == node_count(g)
    IN [node_count      |-> n,
        edge_count      |-> total_edges,
        root_nodes      |-> rts,
        leaf_nodes      |-> leaves,
        leaf_count      |-> Len(leaves),
        max_depth       |-> IF DOMAIN depths # {}
                            THEN MaxOf({depths[x] : x \in DOMAIN depths}) ELSE 0,
        has_cycles      |-> Len(cycles) > 0,
        cycle_count     |-> Len(cycles),
        cycles          |-> cycles,
        avg_direct_deps |-> IF n # 0 THEN round2(total_edges, n) ELSE 0]

\* Names a caller may pass: the names already inserted and the next fresh one.
Known(g) == 1..Min(MaxNodes, node_count(g) + 1)

\* call and ret: the analysis the caller ran last on the graph as it is now,
\* and what it returned or raised.  A mutation clears them.  (add_node returns
\* the Node it stored, which is get_node of the new graph; add_edge returns
\* nothing.)
NoCall == [op |-> "none", arg |-> None]

add_node(name, version, meta) ==
    /\ LET g == with_node(graph, name, version, meta) IN
         /\ nodes' = g.nodes
         /\ adj' = g.adj
    /\ ret' = Return(None)
    /\ call' = NoCall

add_edge(src, dst) ==
    /\ has_edge(graph, src, dst) \/ edge_count(graph) < MaxEdges
    /\ LET g == with_edge(graph, src, dst) IN
         /\ nodes' = g.nodes
         /\ adj' = g.adj
    /\ ret' = Return(None)
    /\ call' = NoCall

\* The analyses leave the graph alone; each draws the iteration orders.
DetectCycles ==
    /\ \E ord \in IterOrders(graph) : ret' = Return(detect_cycles(graph, ord))
    /\ call' = [op |-> "detect_cycles", arg |-> None]
    /\ UNCHANGED <<nodes, adj>>

TopologicalSort ==
    /\ \E ord \in IterOrders(graph) : ret' = topological_sort(graph, ord)
    /\ call' = [op |-> "topological_sort", arg |-> None]
    /\ UNCHANGED <<nodes, adj>>

\* transitive_deps that works on the set neighbors hands out instead of on a
\* list copied from it: popping the worklist drains the node's own edge set.
TransitiveDeps_draining(node) ==
    /\ \E tmp \in IterOrders(graph) :
         \E first \in (IF has_node(graph, node) THEN Perms(neighbors(graph, node))
                       ELSE {<<>>}) :
            ret' = transitive_deps(graph, node, first, tmp)
    /\ call' = [op |-> "transitive_deps", arg |-> node]
    /\ adj' = [x \in DOMAIN adj |-> IF x = node THEN {} ELSE adj[x]]
    /\ UNCHANGED nodes

TransitiveDeps(node) ==
    /\ \E tmp \in IterOrders(graph) :
         \E first \in (IF has_node(graph, node) THEN Perms(neighbors(graph, node))
                       ELSE {<<>>}) :
            ret' = transitive_deps(graph, node, first, tmp)
    /\ call' = [op |-> "transitive_deps", arg |-> node]
    /\ UNCHANGED <<nodes, adj>>

StronglyConnectedComponents ==
    /\ \E ord \in IterOrders(graph) :
         ret' = Return(strongly_connected_components(graph, ord))
    /\ call' = [op |-> "strongly_connected_components", arg |-> None]
    /\ UNCHANGED <<nodes, adj>>

ComputeDepth(root) ==
    /\ \E ord \in IterOrders(graph) : ret' = compute_depth(graph, root, ord)
    /\ call' = [op |-> "compute_depth", arg |-> root]
    /\ UNCHANGED <<nodes, adj>>

Neighbors(name) ==
    /\ ret' = neighbors_checked(graph, name)
    /\ call' = [op |-> "neighbors", arg |-> name]
    /\ UNCHANGED <<nodes, adj>>

GraphStats ==
    /\ \E ord \in IterOrders(graph) : ret' = Return(graph_stats(graph, ord))
    /\ call' = [op |-> "graph_stats", arg |-> None]
    /\ UNCHANGED <<nodes, adj>>

\* The caller's graph becomes the one build_graph returns.
BuildGraph(deps) ==
    /\ LET g == build_graph(deps) IN
         /\ nodes' = g.nodes
         /\ adj' = g.adj
    /\ ret' = Return(None)
    /\ call' = [op |-> "build_graph", arg |-> deps]

Init ==
    /\ nodes = <<>>
    /\ adj = <<>>
    /\ call = NoCall
    /\ ret = Return(None)

\* The caller builds, runs one analysis on what it built, and builds on.  An
\* analysis leaves the graph as it is, so one that follows another analysis
\* returns what it returns right after the last mutation.
Built == call = NoCall

Next ==
    \/ \E name \in Known(graph) : add_node(name, None, NoMeta)
    \/ \E src \in Known(graph) :
         \E dst \in Known(with_node(graph, src, None, NoMeta)) : add_edge(src, dst)
    \/ Built /\ DetectCycles
    \/ Built /\ TopologicalSort
    \/ Built /\ \E node \in Names : TransitiveDeps(node)
    \/ Built /\ StronglyConnectedComponents

Spec == Init /\ [][Next]_vars

\* ---- reference notions used by the properties ------------------------------
NodeSet(g) == Range(node_names(g))
Succ(g, S) == UNION {g.adj[n] : n \in S}

RECURSIVE Closure(_, _)
Closure(g, S) == IF Succ(g, S) \subseteq S THEN S ELSE Closure(g, S \cup Succ(g, S))

\* The nodes at the end of a directed path of one or more edges from n.
ReachPlus(g, n) == Closure(g, g.adj[n])

\* A closed directed walk of length >= 1 exists (self-loops included).
HasCycle(g) == \E n \in NodeSet(g) : n \in ReachPlus(g, n)

\* Position of x in a duplicate-free sequence that holds it.
Pos(s, x) == CHOOSE i \in 1..Len(s) : s[i] = x

IsDetect == call.op = "detect_cycles"
IsTopo == call.op = "topological_sort"
IsDeps == call.op = "transitive_deps"
IsScc == call.op = "strongly_connected_components"

\* C1: detect_cycles returns the empty list exactly when topological_sort
\* returns an order instead of raising, whatever the iteration orders of the
\* two runs.
C1_Agreement ==
    IsDetect =>
        \A ord \in IterOrders(graph) :
            (ret.val = <<>>) <=> (topological_sort(graph, ord).exc = "none")

C1_Witness ==
    /\ IsDetect
    /\ ret.val # <<>>
    /\ \E ord \in IterOrders(graph) : topological_sort(graph, ord).exc = "ValueError"
    /\ \E n \in NodeSet(graph) : n \notin ReachPlus(graph, n)

\* C2: a node is never a member of its own transitive_deps, also when it lies
\* on a cycle.
C2_SelfExcluded ==
    (IsDeps /\ ret.exc = "none") => call.arg \notin ret.val

\* C3: for m other than n, m is in transitive_deps(G, n) exactly when a path
\* of one or more edges leads from n to m; a leaf yields the empty set.
C3_Reachable ==
    (IsDeps /\ has_node(graph, call.arg)) =>
        /\ ret.exc = "none"
        /\ \A m \in Names \ {call.arg} :
              m \in ret.val <=> m \in ReachPlus(graph, call.arg)
        /\ (neighbors(graph, call.arg) = {} => ret.val = {})

C3_Witness ==
    /\ IsDeps /\ has_node(graph, call.arg)
    /\ \E m \in ret.val : m # call.arg /\ m \notin neighbors(graph, call.arg)
    /\ ret.val # NodeSet(graph)

\* C4: on an acyclic graph topological_sort returns every node name exactly
\* once, and u before v for every edge u -> v.
C4_TopoOrder ==
    (IsTopo /\ ~ HasCycle(graph)) =>
        /\ ret.exc = "none"
        /\ Len(ret.val) = node_count(graph)
        /\ Range(ret.val) = NodeSet(graph)
        /\ \A u \in NodeSet(graph) : \A v \in neighbors(graph, u) :
              Pos(ret.val, u) < Pos(ret.val, v)

C4_Witness ==
    /\ IsTopo /\ ~ HasCycle(graph)
    /\ node_count(graph) = MaxNodes
    /\ edge_count(graph) >= MaxNodes
    /\ ret.val # node_names(graph)

\* C5: on a graph with a directed cycle (a self-loop included)
\* topological_sort raises the cycle error and returns no order.
C5_CycleError ==
    (IsTopo /\ HasCycle(graph)) => (ret.exc = "ValueError" /\ ret.val = None)

C5_Witness ==
    /\ IsTopo /\ HasCycle(graph)
    /\ ret.exc = "ValueError"
    /\ \E n \in NodeSet(graph) : n \notin ReachPlus(graph, n)

\* C6: detect_cycles returns the empty list exactly when the graph has no
\* directed cycle.
C6_EmptyIffAcyclic ==
    IsDetect => ((ret.val = <<>>) <=> ~ HasCycle(graph))

C6_Witness ==
    /\ IsDetect
    /\ Len(ret.val) >= 2
    /\ \A n \in NodeSet(graph) : n \notin neighbors(graph, n)

\* The components of an SCC result that hold n.
CompsOf(cs, n) == {i \in 1..Len(cs) : n \in Range(cs[i])}

\* u and v lie on a common closed directed walk.
Mutual(g, u, v) == v \in ReachPlus(g, u) /\ u \in ReachPlus(g, v)

\* C7: the components partition the node set: every node in exactly one
\* component, once, and nothing but nodes in them.
C7_Partition ==
    IsScc =>
        /\ ret.exc = "none"
        /\ \A n \in NodeSet(graph) : Cardinality(CompsOf(ret.val, n)) = 1
        /\ \A i \in 1..Len(ret.val) :
              /\ Range(ret.val[i]) \subseteq NodeSet(graph)
              /\ Cardinality(Range(ret.val[i])) = Len(ret.val[i])

C7_Witness ==
    /\ IsScc
    /\ node_count(graph) = MaxNodes
    /\ \E i, j \in 1..Len(ret.val) : Len(ret.val[i]) > 1 /\ Len(ret.val[j]) = 1

\* C8: u and v are in the same component exactly when each is reachable from
\* the other.
C8_Maximal ==
    IsScc =>
        \A u, v \in NodeSet(graph) :
            (CompsOf(ret.val, u) \cap CompsOf(ret.val, v) # {})
                <=> (u = v \/ Mutual(graph, u, v))

C8_Witness ==
    /\ IsScc
    /\ \E u, v \in NodeSet(graph) :
          /\ u # v
          /\ CompsOf(ret.val, u) \cap CompsOf(ret.val, v) # {}
          /\ \E w \in NodeSet(graph) :
                /\ u \in ReachPlus(graph, w)
                /\ w \notin ReachPlus(graph, u)

\* All members of component c lie on one closed directed walk.
OnCommonCycle(g, c) == \A x, y \in Range(c) : y \in ReachPlus(g, x)

\* C9 as stated: a component has size > 1 exactly when all its members lie on
\* a common cycle.
C9_SizeIffCycle ==
    IsScc =>
        \A i \in 1..Len(ret.val) :
            (Len(ret.val[i]) > 1) <=> OnCommonCycle(graph, ret.val[i])

\* C9 amended: a component has size > 1 exactly when all its members lie on a
\* common cycle that passes through at least two distinct nodes (a node whose
\* only cycle is a self-loop forms a component of size 1).
C9_SizeIffProperCycle ==
    IsScc =>
        \A i \in 1..Len(ret.val) :
            (Len(ret.val[i]) > 1) <=>
                /\ OnCommonCycle(graph, ret.val[i])
                /\ \E x \in Range(ret.val[i]) :
                      \E z \in NodeSet(graph) \ {x} : Mutual(graph, x, z)

C9_Witness ==
    /\ IsScc
    /\ \E i, j \in 1..Len(ret.val) :
          /\ Len(ret.val[i]) > 1
          /\ Len(ret.val[j]) = 1
          /\ ret.val[j][1] \in neighbors(graph, ret.val[j][1])

\* ---- graphs of more nodes, at most one dependency each ---------------------
\* Every node names no dependency or one: chains, in-trees and disjoint rings,
\* inserted in the order of their names.
WideNodes == MaxNodes + 2

InitWide ==
    /\ nodes = [i \in 1..WideNodes |-> Node(i, None, NoMeta)]
    /\ adj \in [1..WideNodes -> {{}} \cup {{m} : m \in 1..WideNodes}]
    /\ call = NoCall
    /\ ret = Return(None)

NextWide == Built /\ StronglyConnectedComponents

SpecWide == InitWide /\ [][NextWide]_vars

\* C10: in the returned list every component of size > 1 precedes every
\* component of size 1, and the components of size > 1 come in non-increasing
\* order of size.
C10_Ordering ==
    IsScc =>
        \A i, j \in 1..Len(ret.val) :
            i < j =>
                /\ ~ (Len(ret.val[i]) = 1 /\ Len(ret.val[j]) > 1)
                /\ (Len(ret.val[i]) > 1 /\ Len(ret.val[j]) > 1)
                      => Len(ret.val[i]) >= Len(ret.val[j])

\* Two rings of different size, the smaller one traversed first.
C10_Witness ==
    /\ IsScc
    /\ \E i, j \in 1..Len(ret.val) :
          /\ i < j
          /\ Len(ret.val[i]) > Len(ret.val[j])
          /\ Len(ret.val[j]) > 1
          /\ 1 \in Range(ret.val[j])

\* ---- the graph and its queries: depth, neighbours, transitive dependencies ---
\* Graphs of fewer edges.
QueryEdges == MaxEdges - 1

NextQuery ==
    \/ \E name \in Known(graph) : add_node(name, None, NoMeta)
    \/ \E src \in Known(graph) :
         \E dst \in Known(with_node(graph, src, None, NoMeta)) :
            /\ has_edge(graph, src, dst) \/ edge_count(graph) < QueryEdges
            /\ add_edge(src, dst)
    \/ Built /\ \E root \in {None} \cup Names : ComputeDepth(root)
    \/ Built /\ \E name \in Names : Neighbors(name)
    \/ Built /\ \E node \in Names : TransitiveDeps(node)

SpecQuery == Init /\ [][NextQuery]_vars

IsDepth == call.op = "compute_depth"
IsNeighbors == call.op = "neighbors"

\* Length of a shortest directed path from the nodes of frontier (k edges away
\* from the start) to n, which is reachable.
RECURSIVE DistFrom(_, _, _, _, _)
DistFrom(g, frontier, seen, n, k) ==
    IF n \in frontier THEN k
    ELSE DistFrom(g, Succ(g, frontier) \ seen, seen \cup Succ(g, frontier), n, k + 1)

Dist(g, r, n) == DistFrom(g, {r}, {r}, n, 0)

\* What compute_depth is to return for root r of the graph.
IsDepthMap(g, r, depth) ==
    /\ DOMAIN depth = {r} \cup ReachPlus(g, r)
    /\ depth[r] = 0
    /\ \A n \in DOMAIN depth : depth[n] = Dist(g, r, n)
    /\ \A u \in DOMAIN depth : \A v \in neighbors(g, u) :
          v \in DOMAIN depth /\ depth[v] <= depth[u] + 1

\* C11: for a root r of the graph compute_depth maps exactly the nodes
\* reachable from r, r included, to the length of a shortest path from r: r to
\* 0, unreachable nodes absent, and depth[v] <= depth[u] + 1 over every edge.
C11_ShortestDepth ==
    (IsDepth /\ call.arg # None /\ has_node(graph, call.arg)) =>
        (ret.exc = "none" /\ IsDepthMap(graph, call.arg, ret.val))

C11_Witness ==
    /\ IsDepth /\ call.arg # None /\ has_node(graph, call.arg)
    /\ \E n \in DOMAIN ret.val : ret.val[n] >= 2
    /\ \E u \in DOMAIN ret.val : \E v \in neighbors(graph, u) : ret.val[v] < ret.val[u]

\* Nodes without incoming edge.
NoIncoming(g) == {n \in NodeSet(g) : \A u \in NodeSet(g) : n \notin neighbors(g, u)}

\* The earliest-inserted node of the non-empty set S.
Earliest(g, S) ==
    node_names(g)[CHOOSE i \in 1..Len(node_names(g)) :
                     /\ node_names(g)[i] \in S
                     /\ \A j \in 1..(i - 1) : node_names(g)[j] \notin S]

\* C12: without a root compute_depth starts from the earliest-inserted node
\* that has no incoming edge, and returns the empty mapping, raising nothing,
\* when every node has an incoming edge (the empty graph included).
C12_DefaultRoot ==
    (IsDepth /\ call.arg = None) =>
        /\ ret.exc = "none"
        /\ IF NoIncoming(graph) = {}
           THEN DOMAIN ret.val = {}
           ELSE IsDepthMap(graph, Earliest(graph, NoIncoming(graph)), ret.val)

C12_Witness ==
    /\ IsDepth /\ call.arg = None
    /\ Cardinality(NoIncoming(graph)) >= 2
    /\ node_names(graph)[1] \notin NoIncoming(graph)
    /\ Cardinality(DOMAIN ret.val) >= 2

\* C13: neighbors, compute_depth with an explicit root and transitive_deps
\* raise the not-found error on a name that is not in the graph, and return
\* nothing in its place.
C13_NotFound ==
    ((IsNeighbors \/ IsDeps \/ (IsDepth /\ call.arg # None))
        /\ ~ has_node(graph, call.arg))
    => ret = Raise("KeyError")

C13_Witness ==
    /\ IsNeighbors
    /\ ~ has_node(graph, call.arg)
    /\ ret.exc = "KeyError"
    /\ edge_count(graph) >= 1

\* ---- the graph and all six analyses ----------------------------------------
NextAll ==
    \/ \E name \in Known(graph) : add_node(name, None, NoMeta)
    \/ \E src \in Known(graph) :
         \E dst \in Known(with_node(graph, src, None, NoMeta)) :
            /\ has_edge(graph, src, dst) \/ edge_count(graph) < QueryEdges
            /\ add_edge(src, dst)
    \/ Built /\ DetectCycles
    \/ Built /\ TopologicalSort
    \/ Built /\ \E root \in {None} \cup Names : ComputeDepth(root)
    \/ Built /\ \E node \in Names : TransitiveDeps(node)
    \/ Built /\ StronglyConnectedComponents
    \/ Built /\ GraphStats

SpecAll == Init /\ [][NextAll]_vars

IsStats == call.op = "graph_stats"
IsAnalysis == IsDetect \/ IsTopo \/ IsDepth \/ IsDeps \/ IsScc \/ IsStats

\* C14: a step that runs an analysis, whether it returns or raises, leaves the
\* node sequence (names, insertion order, versions, metadata) and every
\* outgoing-edge set as they were.
C14_ReadOnly == [][IsAnalysis' => (nodes' = nodes /\ adj' = adj)]_vars

C14_Witness ==
    /\ IsDeps /\ has_node(graph, call.arg)
    /\ ret.exc = "none" /\ Cardinality(ret.val) >= 2
    /\ neighbors(graph, call.arg) # {}

\* ---- the store alone: add_node and add_edge ---------------------------------
StoreEdges == MaxEdges - 2

NextStore ==
    \/ \E name \in Known(graph) : add_node(name, None, NoMeta)
    \/ \E src \in Known(graph) :
         \E dst \in Known(with_node(graph, src, None, NoMeta)) :
            /\ has_edge(graph, src, dst) \/ edge_count(graph) < StoreEdges
            /\ add_edge(src, dst)

SpecStore == Init /\ [][NextStore]_vars

\* The (src, dst) pairs the graph holds as edges.
EdgeSet(g) == {p \in (DOMAIN g.adj) \X Names : p[2] \in g.adj[p[1]]}

\* C16: every name in an outgoing-edge set is a node of the graph: has_node
\* holds for it and neighbors does not fail on it.
C16_EndpointsExist ==
    \A n \in DOMAIN adj : \A d \in adj[n] :
        has_node(graph, d) /\ neighbors_checked(graph, d).exc = "none"

C16_Witness ==
    /\ node_count(graph) = MaxNodes
    /\ \E n \in DOMAIN adj : MaxNodes \in adj[n]
    /\ edge_count(graph) >= 2

\* C18: add_edge(src, dst) leaves src and dst nodes and src -> dst an edge,
\* adds no other edge (the reverse one included) and removes none, raises
\* edge_count by one when the edge is new and changes nothing when it is not;
\* add_node adds no edge.  So edge_count is the number of distinct pairs added.
C18_AddEdge ==
    [][ /\ \A src, dst \in Names : add_edge(src, dst) =>
             /\ has_node(graph', src) /\ has_node(graph', dst)
             /\ has_edge(graph', src, dst)
             /\ EdgeSet(graph') = EdgeSet(graph) \cup {<<src, dst>>}
             /\ edge_count(graph') =
                   edge_count(graph) + (IF has_edge(graph, src, dst) THEN 0 ELSE 1)
             /\ has_edge(graph, src, dst) => (nodes' = nodes /\ adj' = adj)
             /\ edge_count(graph') = Cardinality(EdgeSet(graph'))
        /\ \A name \in Names : add_node(name, None, NoMeta) =>
             EdgeSet(graph') = EdgeSet(graph)
      ]_vars

C18_Witness ==
    /\ has_edge(graph, 1, 2) /\ ~ has_edge(graph, 2, 1)
    /\ has_edge(graph, 2, 2)
    /\ edge_count(graph) = 2
    /\ node_count(graph) = 2

\* ---- the store with versions and metadata, on fewer nodes and edges ---------
MergeNodes == MaxNodes - 1
MergeEdges == MaxEdges - 4

\* Versions and metadata a caller passes.  Keys and values are strings or any
\* other objects in the program; add_node only stores them.
NodeArgs ==
    {[version |-> None, meta |-> NoMeta],
     [version |-> 1,    meta |-> (1 :> 1)],
     [version |-> 2,    meta |-> (1 :> 2) @@ (2 :> 1)],
     [version |-> None, meta |-> (1 :> 1)]}

NextMerge ==
    \/ \E name \in Known(graph) \cap 1..MergeNodes :
         \E a \in NodeArgs : add_node(name, a.version, a.meta)
    \/ \E src \in Known(graph) \cap 1..MergeNodes :
         \E dst \in Known(with_node(graph, src, None, NoMeta)) \cap 1..MergeNodes :
            /\ has_edge(graph, src, dst) \/ edge_count(graph) < MergeEdges
            /\ add_edge(src, dst)

SpecMerge == Init /\ [][NextMerge]_vars

\* dict.update as a value: old overridden key by key by new.
Updated(old, new) ==
    [k \in DOMAIN old \cup DOMAIN new |-> IF k \in DOMAIN new THEN new[k] ELSE old[k]]

\* C17: add_node on a name the graph has keeps the node count, the insertion
\* order, every other node and every outgoing-edge set; the node's version
\* becomes the one supplied, or stays when none is supplied; its metadata
\* becomes the previous metadata overridden key by key by the new fields.
C17_ReAdd ==
    [][ \A name \in Names : \A a \in NodeArgs :
          (has_node(graph, name) /\ add_node(name, a.version, a.meta)) =>
             /\ node_count(graph') = node_count(graph)
             /\ node_names(graph') = node_names(graph)
             /\ adj' = adj
             /\ \A i \in 1..Len(nodes) : nodes[i].name # name => nodes'[i] = nodes[i]
             /\ get_node(graph', name).version =
                   (IF a.version # None THEN a.version
                    ELSE get_node(graph, name).version)
             /\ get_node(graph', name).metadata =
                   Updated(get_node(graph, name).metadata, a.meta)
      ]_vars

C17_Witness ==
    /\ has_node(graph, 1)
    /\ get_node(graph, 1).metadata = (1 :> 1) @@ (2 :> 1)
    /\ get_node(graph, 1).version = 2
    /\ neighbors(graph, 1) # {}

\* ---- build_graph on every mapping of a few keys and listed dependencies -----
BuilderKeys == MaxNodes - 1
BuilderDeps == MaxEdges - 2

\* Lists of at most n names, repeats allowed.
ChildLists(n) == UNION {[1..k -> Names] : k \in 0..n}

\* Sequences of distinct names: the keys of a dict, in insertion order.
KeySeqs ==
    UNION {{ks \in [1..k -> Names] : \A i, j \in 1..k : i # j => ks[i] # ks[j]} :
             k \in 0..BuilderKeys}

\* The mappings with keys ks[i], ks[i+1], ... that list at most budget names.
RECURSIVE DepsOver(_, _, _)
DepsOver(ks, i, budget) ==
    IF i > Len(ks) THEN {<<>>}
    ELSE UNION {{<<[parent |-> ks[i], children |-> c]>> \o rest :
                   rest \in DepsOver(ks, i + 1, budget - Len(c))} :
                  c \in ChildLists(budget)}

\* The graph is constructed once.
NextBuilder ==
    Built /\ \E ks \in KeySeqs : \E deps \in DepsOver(ks, 1, BuilderDeps) : BuildGraph(deps)

SpecBuilder == Init /\ [][NextBuilder]_vars

IsBuild == call.op = "build_graph"

\* C19: the nodes of build_graph(deps) are the keys and the listed dependency
\* names, no other and none twice, and u -> v is an edge exactly when v is
\* listed under key u, however many times.
C19_BuildGraph ==
    IsBuild =>
        LET deps   == call.arg
            keys   == {deps[i].parent : i \in 1..Len(deps)}
            listed == UNION {Range(deps[i].children) : i \in 1..Len(deps)}
            pairs  == UNION {{<<deps[i].parent, v>> : v \in Range(deps[i].children)} :
                               i \in 1..Len(deps)}
        IN /\ NodeSet(graph) = keys \cup listed
           /\ node_count(graph) = Cardinality(keys \cup listed)
           /\ DOMAIN adj = keys \cup listed
           /\ \A u, v \in Names : has_edge(graph, u, v) <=> <<u, v>> \in pairs
           /\ edge_count(graph) = Cardinality(pairs)

C19_Witness ==
    /\ IsBuild
    /\ Len(call.arg) = 2
    /\ call.arg[1].children = <<>>
    /\ \A i \in 1..2 : call.arg[1].parent \notin Range(call.arg[i].children)
    /\ Len(call.arg[2].children) = 3
    /\ Cardinality(Range(call.arg[2].children)) = 2
    /\ Range(call.arg[2].children) \ {call.arg[1].parent, call.arg[2].parent} # {}
    /\ node_count(graph) = 3 /\ edge_count(graph) = 2

\* ---- the graph and detect_cycles --------------------------------------------
NextCycles ==
    \/ \E name \in Known(graph) : add_node(name, None, NoMeta)
    \/ \E src \in Known(graph) :
         \E dst \in Known(with_node(graph, src, None, NoMeta)) :
            /\ has_edge(graph, src, dst) \/ edge_count(graph) < QueryEdges
            /\ add_edge(src, dst)
    \/ Built /\ DetectCycles

SpecCycles == Init /\ [][NextCycles]_vars

\* u and the nodes above it in the traversal forest given by parent.
RECURSIVE AncestorsOrSelf(_, _)
AncestorsOrSelf(parent, u) ==
    IF parent[u] = None THEN {u} ELSE {u} \cup AncestorsOrSelf(parent, parent[u])

\* The edges u -> v that lead back to u itself or to a node above u in the
\* forest: those examined while v is in progress.
BackEdges(g, parent) ==
    {p \in EdgeSet(g) : p[2] \in AncestorsOrSelf(parent, p[1])}

\* The edge a reported cycle closes with: its last two elements.
ClosingEdge(c) == <<c[Len(c) - 1], c[Len(c)]>>

\* Every node has one outgoing and one incoming edge, and all lie on one cycle.
IsRing(g) ==
    /\ NodeSet(g) # {}
    /\ \A n \in NodeSet(g) : Cardinality(neighbors(g, n)) = 1
    /\ \A n \in NodeSet(g) : NodeSet(g) \subseteq ReachPlus(g, n)

\* C20: under whichever iteration order gave the result, detect_cycles reports
\* one cycle per back-edge of the traversal, each closing with its back-edge,
\* so as many cycles as back-edges, none merged or dropped; on a single ring
\* it reports one cycle, which holds every node of the ring.
C20_OnePerBackEdge ==
    IsDetect =>
        /\ \A ord \in IterOrders(graph) :
             LET st == dc_for(graph, ord, dc_init(graph), 1)
                 be == BackEdges(graph, st.parent)
             IN st.cycles = ret.val =>
                   /\ Len(ret.val) = Cardinality(be)
                   /\ {ClosingEdge(ret.val[i]) : i \in 1..Len(ret.val)} = be
        /\ IsRing(graph) =>
             (Len(ret.val) = 1 /\ Range(ret.val[1]) = NodeSet(graph))

C20_Witness ==
    /\ IsDetect
    /\ \E i, j \in 1..Len(ret.val) :
          /\ i # j
          /\ ClosingEdge(ret.val[i])[1] = ClosingEdge(ret.val[j])[1]
          /\ Range(ret.val[i]) \cap Range(ret.val[j]) # {}
          /\ Len(ret.val[i]) > 2 /\ Len(ret.val[j]) > 2

C20_WitnessRing ==
    /\ IsDetect /\ IsRing(graph) /\ node_count(graph) = MaxNodes
    /\ Len(ret.val) = 1

\* ---- detect_cycles: which cycles are reported --------------------------------
\* The elementary cycles of g as sequences of distinct nodes, each with an
\* edge to the next and the last with an edge to the first.
ElemCycles(g) ==
    {s \in UNION {[1..k -> NodeSet(g)] : k \in 1..node_count(g)} :
        /\ \A i, j \in 1..Len(s) : i # j => s[i] # s[j]
        /\ \A i \in 1..Len(s) : has_edge(g, s[i], s[(i % Len(s)) + 1])}

Rotations(s) ==
    {[i \in 1..Len(s) |-> s[((i + r - 1) % Len(s)) + 1]] : r \in 0..(Len(s) - 1)}

\* A reported cycle without its repeated endpoint.
Open(c) == SubSeq(c, 1, Len(c) - 1)

\* C21: every elementary cycle of the graph is in the list detect_cycles
\* returns, up to the node it starts at.
C21_AllElementaryCycles ==
    IsDetect =>
        \A s \in ElemCycles(graph) :
            \E i \in 1..Len(ret.val) : \E r \in Rotations(s) :
                Len(ret.val[i]) = Len(s) + 1 /\ Open(ret.val[i]) = r

\* C22: every self-loop u -> u gives the cycle [u, u], once; on a graph whose
\* only edge is a -> a the result is the one cycle [a, a].
C22_SelfLoop ==
    IsDetect =>
        /\ \A u \in NodeSet(graph) : has_edge(graph, u, u) =>
              Cardinality({i \in 1..Len(ret.val) : ret.val[i] = <<u, u>>}) = 1
        /\ \A a \in NodeSet(graph) : EdgeSet(graph) = {<<a, a>>} =>
              ret.val = << <<a, a>> >>

C22_Witness ==
    /\ IsDetect
    /\ \E u, w \in NodeSet(graph) :
          /\ u # w
          /\ has_edge(graph, u, u) /\ has_edge(graph, u, w) /\ has_edge(graph, w, u)
          /\ \E i, j \in 1..Len(ret.val) :
                ret.val[i] = <<u, u>> /\ Len(ret.val[j]) = 3

\* C27: every reported list is a cycle of the graph: two elements or more,
\* the first equal to the last, each consecutive pair an edge, and no node
\* twice but for the repeated endpoint.
C27_GenuineCycles ==
    IsDetect =>
        \A k \in 1..Len(ret.val) :
            LET c == ret.val[k]
            IN /\ Len(c) >= 2
               /\ c[1] = c[Len(c)]
               /\ \A i \in 1..(Len(c) - 1) : has_edge(graph, c[i], c[i + 1])
               /\ \A i, j \in 1..(Len(c) - 1) : i # j => c[i] # c[j]

C27_Witness ==
    /\ IsDetect
    /\ \E k \in 1..Len(ret.val) : Len(ret.val[k]) = MaxNodes + 1
    /\ \E k \in 1..Len(ret.val) : Len(ret.val[k]) = 3

\* ---- the engines on one graph -------------------------------------------------
HasBigComponent(cs) == \E i \in 1..Len(cs) : Len(cs[i]) > 1
HasSelfLoop(g) == \E u \in NodeSet(g) : has_edge(g, u, u)

\* u has a self-loop and lies on no cycle through another node.
OnlySelfLoop(g, u) ==
    has_edge(g, u, u) /\ \A w \in NodeSet(g) \ {u} : ~ Mutual(g, u, w)

\* C23: a node whose only cycle is a self-loop is a component of size 1 of
\* strongly_connected_components, listed after every component of size > 1,
\* while detect_cycles on the same graph reports [u, u].
C23_SelfLoopTrivial ==
    IsScc =>
        \A u \in NodeSet(graph) : OnlySelfLoop(graph, u) =>
            /\ \E i \in 1..Len(ret.val) :
                  /\ ret.val[i] = <<u>>
                  /\ \A j \in 1..Len(ret.val) : Len(ret.val[j]) > 1 => j < i
            /\ \A ord \in IterOrders(graph) :
                  \E k \in 1..Len(detect_cycles(graph, ord)) :
                      detect_cycles(graph, ord)[k] = <<u, u>>

C23_Witness ==
    /\ IsScc
    /\ \E u \in NodeSet(graph) : OnlySelfLoop(graph, u)
    /\ HasBigComponent(ret.val)

\* The nodes of S in insertion order.
InOrder(g, S) == SelectSeq(node_names(g), LAMBDA n : n \in S)

\* C24: graph_stats agrees with what it composes: the counts of the graph, the
\* roots and the leaves in insertion order, the cycles of detect_cycles with
\* their count and presence, and the largest depth from the first root (0
\* without a root).
C24_StatsAgree ==
    IsStats =>
        LET s      == ret.val
            leaves == {n \in NodeSet(graph) : neighbors(graph, n) = {}}
            rts    == InOrder(graph, NoIncoming(graph))
        IN /\ ret.exc = "none"
           /\ s.node_count = Len(nodes)
           /\ s.edge_count = Cardinality(EdgeSet(graph))
           /\ s.root_nodes = rts
           /\ s.leaf_nodes = InOrder(graph, leaves)
           /\ s.leaf_count = Cardinality(leaves)
           /\ \E ord \in IterOrders(graph) : s.cycles = detect_cycles(graph, ord)
           /\ s.cycle_count = Len(s.cycles)
           /\ s.has_cycles = (s.cycle_count > 0)
           /\ s.has_cycles = HasCycle(graph)
           /\ s.max_depth =
                 (IF rts = <<>> THEN 0
                  ELSE MaxOf({Dist(graph, rts[1], n) :
                                n \in {rts[1]} \cup ReachPlus(graph, rts[1])}))

C24_Witness ==
    /\ IsStats
    /\ Len(ret.val.root_nodes) >= 2
    /\ ret.val.max_depth >= 1
    /\ ret.val.leaf_count >= 1
    /\ ret.val.cycle_count >= 1
    /\ Cardinality(ReachPlus(graph, ret.val.root_nodes[1]))
         # Cardinality(ReachPlus(graph, ret.val.root_nodes[2]))

\* C25: on the empty graph the counts are 0 and every analysis returns its
\* empty value and raises nothing: [] for detect_cycles, topological_sort and
\* strongly_connected_components, {} for compute_depth without a root, and
\* for graph_stats counts 0, has_cycles false and average 0.
C25_EmptyGraph ==
    nodes = <<>> =>
        /\ node_count(graph) = 0 /\ edge_count(graph) = 0
        /\ (IsDetect \/ IsTopo \/ IsScc \/ IsStats \/ (IsDepth /\ call.arg = None))
              => ret.exc = "none"
        /\ (IsDetect \/ IsTopo \/ IsScc) => ret.val = <<>>
        /\ (IsDepth /\ call.arg = None) => DOMAIN ret.val = {}
        /\ IsStats =>
              /\ ret.val.node_count = 0 /\ ret.val.edge_count = 0
              /\ ret.val.leaf_count = 0 /\ ret.val.cycle_count = 0
              /\ ret.val.max_depth = 0
              /\ ret.val.root_nodes = <<>> /\ ret.val.leaf_nodes = <<>>
              /\ ret.val.cycles = <<>>
              /\ ret.val.has_cycles = FALSE
              /\ ret.val.avg_direct_deps = 0

C25_Witness ==
    /\ nodes = <<>>
    /\ IsStats
    /\ ret.val.avg_direct_deps = 0

\* C30: detect_cycles reports a cycle exactly when
\* strongly_connected_components has a component of size > 1 or the graph has
\* a self-loop, and graph_stats has has_cycles true whenever there is a
\* component of size > 1.
C30_EnginesAgree ==
    /\ IsScc =>
          \A ord \in IterOrders(graph) :
              (detect_cycles(graph, ord) # <<>>)
                  <=> (HasBigComponent(ret.val) \/ HasSelfLoop(graph))
    /\ IsStats =>
          \A ord \in IterOrders(graph) :
              HasBigComponent(strongly_connected_components(graph, ord))
                  => ret.val.has_cycles

C30_Witness ==
    /\ IsStats
    /\ ~ HasSelfLoop(graph)
    /\ ret.val.has_cycles /\ ret.val.cycle_count = 1
    /\ \E n \in NodeSet(graph) : n \notin ReachPlus(graph, n)

\* ---- detect_cycles, one loop iteration at a time ------------------------------
\* While a call runs, ret holds its local variables: for detect_cycles the
\* record st of dc_init, the position i of `for start in ...`, the iteration
\* orders ord of this run and, for the properties, how often each node was
\* pushed.
Running(locals) == [exc |-> "running", val |-> locals]
IsRunning == ret.exc = "running"

\* pushed, after a step from stack `before` to stack `after`.
Pushed(pushed, before, after) ==
    IF Len(after) > Len(before)
    THEN [pushed EXCEPT ![after[Len(after)].node] = @ + 1]
    ELSE pushed

DcStart ==
    /\ Built
    /\ \E ord \in IterOrders(graph) :
         ret' = Running([st     |-> dc_init(graph),
                         i      |-> 1,
                         ord    |-> ord,
                         pushed |-> [n \in NodeSet(graph) |-> 0]])
    /\ call' = [op |-> "detect_cycles", arg |-> None]
    /\ UNCHANGED <<nodes, adj>>

\* `for start in graph.node_names()`: skip a visited start, push an unvisited one.
DcFor ==
    /\ IsDetect /\ IsRunning
    /\ ret.val.st.stack = <<>>
    /\ ret.val.i <= Len(node_names(graph))
    /\ LET l     == ret.val
           start == node_names(graph)[l.i]
           st2   == IF l.st.color[start] # WHITE THEN l.st
                    ELSE dc_push(l.st, l.ord, start)
       IN ret' = Running([l EXCEPT !.st = st2,
                                   !.i = @ + 1,
                                   !.pushed = Pushed(@, l.st.stack, st2.stack)])
    /\ UNCHANGED <<nodes, adj, call>>

\* One iteration of `while stack`.
DcWhile ==
    /\ IsDetect /\ IsRunning
    /\ ret.val.st.stack # <<>>
    /\ LET l   == ret.val
           st2 == dc_step(l.st, l.ord)
       IN ret' = Running([l EXCEPT !.st = st2,
                                   !.pushed = Pushed(@, l.st.stack, st2.stack)])
    /\ UNCHANGED <<nodes, adj, call>>

DcReturn ==
    /\ IsDetect /\ IsRunning
    /\ ret.val.st.stack = <<>>
    /\ ret.val.i > Len(node_names(graph))
    /\ ret' = Return(ret.val.st.cycles)
    /\ UNCHANGED <<nodes, adj, call>>

\* Nothing else runs while a call does.
NextDcSteps ==
    \/ ~ IsRunning /\ \E name \in Known(graph) : add_node(name, None, NoMeta)
    \/ ~ IsRunning /\
         \E src \in Known(graph) :
           \E dst \in Known(with_node(graph, src, None, NoMeta)) :
              /\ has_edge(graph, src, dst) \/ edge_count(graph) < QueryEdges
              /\ add_edge(src, dst)
    \/ DcStart
    \/ DcFor
    \/ DcWhile
    \/ DcReturn

SpecDcSteps == Init /\ [][NextDcSteps]_vars

\* Does the parent walk from cur arrive at v before it runs out of parents?
RECURSIVE WalkReaches(_, _, _)
WalkReaches(parent, cur, v) ==
    IF cur = v THEN TRUE
    ELSE IF parent[cur] = None THEN FALSE
    ELSE WalkReaches(parent, parent[cur], v)

\* C28: between the iterations of detect_cycles' loops the GRAY nodes are the
\* nodes on the stack, no node has been pushed twice, every stacked node but
\* the bottom one has the node below it as parent, and from the top node the
\* parent walk arrives at every GRAY node, so at the target of any back-edge,
\* without meeting None.
C28_StackDiscipline ==
    (IsDetect /\ IsRunning) =>
        LET st    == ret.val.st
            stack == st.stack
        IN /\ {n \in DOMAIN st.color : st.color[n] = GRAY}
                 = {stack[k].node : k \in 1..Len(stack)}
           /\ \A n \in DOMAIN ret.val.pushed : ret.val.pushed[n] <= 1
           /\ \A j, k \in 1..Len(stack) : j # k => stack[j].node # stack[k].node
           /\ \A k \in 2..Len(stack) : st.parent[stack[k].node] = stack[k - 1].node
           /\ stack # <<>> =>
                 \A v \in DOMAIN st.color : st.color[v] = GRAY =>
                     WalkReaches(st.parent, stack[Len(stack)].node, v)

C28_Witness ==
    /\ IsDetect /\ IsRunning
    /\ Len(ret.val.st.stack) = MaxNodes
    /\ LET top == ret.val.st.stack[MaxNodes]
       IN top.it # <<>> /\ Head(top.it) = ret.val.st.stack[1].node
    /\ \E n \in DOMAIN ret.val.st.parent : ret.val.st.parent[n] # None

\* ---- strongly_connected_components, one loop iteration at a time --------------
\* ret holds the record st of scc_init, the position i of `for start in ...`
\* and the iteration orders of this run.
SccStart ==
    /\ Built
    /\ \E ord \in IterOrders(graph) :
         ret' = Running([st |-> scc_init, i |-> 1, ord |-> ord])
    /\ call' = [op |-> "strongly_connected_components", arg |-> None]
    /\ UNCHANGED <<nodes, adj>>

\* `for start in graph.node_names()`: skip an indexed start, visit a new one.
SccFor ==
    /\ IsScc /\ IsRunning
    /\ ret.val.st.call_stack = <<>>
    /\ ret.val.i <= Len(node_names(graph))
    /\ LET l     == ret.val
           start == node_names(graph)[l.i]
       IN ret' = Running([l EXCEPT !.st = IF start \in DOMAIN l.st.node_index THEN @
                                          ELSE scc_visit(@, l.ord, start),
                                   !.i = @ + 1])
    /\ UNCHANGED <<nodes, adj, call>>

\* One iteration of `while call_stack`.
SccWhile ==
    /\ IsScc /\ IsRunning
    /\ ret.val.st.call_stack # <<>>
    /\ ret' = Running([ret.val EXCEPT !.st = scc_step(@, ret.val.ord)])
    /\ UNCHANGED <<nodes, adj, call>>

SccReturn ==
    /\ IsScc /\ IsRunning
    /\ ret.val.st.call_stack = <<>>
    /\ ret.val.i > Len(node_names(graph))
    /\ ret' = Return(scc_order(ret.val.st.sccs))
    /\ UNCHANGED <<nodes, adj, call>>

NextSccSteps ==
    \/ ~ IsRunning /\ \E name \in Known(graph) : add_node(name, None, NoMeta)
    \/ ~ IsRunning /\
         \E src \in Known(graph) :
           \E dst \in Known(with_node(graph, src, None, NoMeta)) :
              /\ has_edge(graph, src, dst) \/ edge_count(graph) < QueryEdges
              /\ add_edge(src, dst)
    \/ SccStart
    \/ SccFor
    \/ SccWhile
    \/ SccReturn

SpecSccSteps == Init /\ [][NextSccSteps]_vars

\* C29: between the iterations of strongly_connected_components' loops
\* on_stack is true exactly for the nodes on scc_stack, the indices are
\* pairwise distinct, no lowlink exceeds its node's index, every node with a
\* frame on call_stack is on scc_stack, and when call_stack is empty so is
\* scc_stack and every visited node is in a component already emitted.
C29_TarjanState ==
    (IsScc /\ IsRunning) =>
        LET st      == ret.val.st
            visited == DOMAIN st.node_index
        IN /\ DOMAIN st.on_stack = visited /\ DOMAIN st.node_lowlink = visited
           /\ \A w \in visited : st.on_stack[w] <=> w \in Range(st.scc_stack)
           /\ Range(st.scc_stack) \subseteq visited
           /\ \A a, b \in visited : a # b => st.node_index[a] # st.node_index[b]
           /\ \A w \in visited : st.node_lowlink[w] <= st.node_index[w]
           /\ \A k \in 1..Len(st.call_stack) : st.call_stack[k].node \in Range(st.scc_stack)
           /\ st.call_stack = <<>> =>
                 /\ st.scc_stack = <<>>
                 /\ visited = UNION {Range(st.sccs[k]) : k \in 1..Len(st.sccs)}

C29_Witness ==
    /\ IsScc /\ IsRunning
    /\ Len(ret.val.st.call_stack) = 1
    /\ Len(ret.val.st.scc_stack) = 2
    /\ Len(ret.val.st.sccs) = 1
    /\ \E w \in DOMAIN ret.val.st.node_lowlink :
          ret.val.st.node_lowlink[w] < ret.val.st.node_index[w]

\* ---- every analysis, one loop iteration at a time -----------------------------
\* topological_sort: the counting loop and the seeding of the queue, then the
\* while loop, then the length test.
TsStart ==
    /\ Built
    /\ \E ord \in IterOrders(graph) :
         LET deg == ts_in_degree(graph)
         IN ret' = Running([st  |-> [in_degree |-> deg,
                                     queue     |-> SelectSeq(node_names(graph),
                                                             LAMBDA n : deg[n] = 0),
                                     order     |-> <<>>],
                            ord |-> ord])
    /\ call' = [op |-> "topological_sort", arg |-> None]
    /\ UNCHANGED <<nodes, adj>>

TsWhile ==
    /\ IsTopo /\ IsRunning
    /\ ret.val.st.queue # <<>>
    /\ ret' = Running([ret.val EXCEPT !.st = ts_step(@, ret.val.ord)])
    /\ UNCHANGED <<nodes, adj, call>>

TsReturn ==
    /\ IsTopo /\ IsRunning
    /\ ret.val.st.queue = <<>>
    /\ ret' = IF Len(ret.val.st.order) # node_count(graph)
              THEN Raise("ValueError") ELSE Return(ret.val.st.order)
    /\ UNCHANGED <<nodes, adj, call>>

\* compute_depth: the call, with depth and queue not yet bound.
CdStart(root) ==
    /\ Built
    /\ \E ord \in IterOrders(graph) :
         ret' = Running([st      |-> [depth |-> EmptyDict, queue |-> <<>>],
                         ord     |-> ord,
                         entered |-> FALSE])
    /\ call' = [op |-> "compute_depth", arg |-> root]
    /\ UNCHANGED <<nodes, adj>>

\* The choice of the root: return {} when there is none, raise on an unknown
\* one, else bind depth and queue.
CdRoot ==
    /\ IsDepth /\ IsRunning
    /\ ~ ret.val.entered
    /\ ret' = IF call.arg = None /\ roots(graph) = <<>> THEN Return(EmptyDict)
              ELSE LET r == IF call.arg = None THEN roots(graph)[1] ELSE call.arg
                   IN IF ~ has_node(graph, r) THEN Raise("KeyError")
                      ELSE Running([ret.val EXCEPT
                                      !.st = [depth |-> (r :> 0), queue |-> <<r>>],
                                      !.entered = TRUE])
    /\ UNCHANGED <<nodes, adj, call>>

CdWhile ==
    /\ IsDepth /\ IsRunning
    /\ ret.val.entered
    /\ ret.val.st.queue # <<>>
    /\ ret' = Running([ret.val EXCEPT !.st = cd_step(@, ret.val.ord)])
    /\ UNCHANGED <<nodes, adj, call>>

CdReturn ==
    /\ IsDepth /\ IsRunning
    /\ ret.val.entered
    /\ ret.val.st.queue = <<>>
    /\ ret' = Return(ret.val.st.depth)
    /\ UNCHANGED <<nodes, adj, call>>

\* transitive_deps: the membership test and the copy of the neighbours.
TdStart(node) ==
    /\ Built
    /\ IF ~ has_node(graph, node) THEN ret' = Raise("KeyError")
       ELSE \E tmp \in IterOrders(graph) : \E first \in Perms(neighbors(graph, node)) :
               ret' = Running([st  |-> [visited |-> {}, stack |-> first],
                               tmp |-> tmp])
    /\ call' = [op |-> "transitive_deps", arg |-> node]
    /\ UNCHANGED <<nodes, adj>>

TdWhile ==
    /\ IsDeps /\ IsRunning
    /\ ret.val.st.stack # <<>>
    /\ ret' = Running([ret.val EXCEPT !.st = td_step(ret.val.tmp, @)])
    /\ UNCHANGED <<nodes, adj, call>>

TdReturn ==
    /\ IsDeps /\ IsRunning
    /\ ret.val.st.stack = <<>>
    /\ ret' = Return(ret.val.st.visited)
    /\ UNCHANGED <<nodes, adj, call>>

\* Graphs of fewer edges still.
LiveEdges == MaxEdges - 3

\* A step of the call that is running.
RunStep ==
    \/ DcFor \/ DcWhile \/ DcReturn
    \/ SccFor \/ SccWhile \/ SccReturn
    \/ TsWhile \/ TsReturn
    \/ CdRoot \/ CdWhile \/ CdReturn
    \/ TdWhile \/ TdReturn

\* The graph is built, then one analysis is called on it.
NextLive ==
    \/ Built /\ \E name \in Known(graph) : add_node(name, None, NoMeta)
    \/ Built /\
         \E src \in Known(graph) :
           \E dst \in Known(with_node(graph, src, None, NoMeta)) :
              /\ has_edge(graph, src, dst) \/ edge_count(graph) < LiveEdges
              /\ add_edge(src, dst)
    \/ DcStart
    \/ SccStart
    \/ TsStart
    \/ \E root \in {None} \cup Names : CdStart(root)
    \/ \E node \in Names : TdStart(node)
    \/ RunStep

\* Every engine runs to completion on the calling thread: a call that is
\* running takes its next step.
SpecLive == Init /\ [][NextLive]_vars /\ WF_vars(RunStep)

\* C26: a running analysis comes to an end, and detect_cycles, compute_depth
\* without a root, transitive_deps on a node of the graph and
\* strongly_connected_components end with a value, never an error.
C26_Termination ==
    /\ IsRunning ~> ~ IsRunning
    /\ [](( /\ ~ IsRunning
            /\ \/ IsDetect
               \/ IsScc
               \/ IsDepth /\ call.arg = None
               \/ IsDeps /\ has_node(graph, call.arg))
          => ret.exc = "none")

C26_Witness ==
    /\ IsDeps /\ ~ IsRunning
    /\ has_node(graph, call.arg)
    /\ call.arg \in ret.val
    /\ Cardinality(ret.val) >= 2
====
